---- MODULE Spec2Model ----
(***************************************************************************)
(* A model of asynqp/channel.py: the channel factory, the per-channel      *)
(* frame handler, the message receiver, the returned-message catcher and   *)
(* the Channel operations, run on a single-threaded FIFO event loop.       *)
(***************************************************************************)
EXTENDS Integers, Sequences, FiniteSets, TLC

\* ---------------------------------------------------------------- bounds
MaxOpens == 3      \* ChannelFactory.open() calls on the connection
MaxEvents == 3     \* Channel operations, caller timeouts, pushes and closes by the peer
MaxBody == 2       \* largest body length a content header declares
MaxNameLen == 2    \* length of the generated exchange names
FrameMax == 1      \* largest body chunk the peer puts in one body frame

Calls == 1..MaxOpens
Ids == 1..(MaxOpens + 1)
NoneTag == 0
ConsumerTags == {1}

\* ------------------------------------------------------- frames and values
P(kind, tag, meta, size) == [kind |-> kind, tag |-> tag, meta |-> meta, size |-> size]
NoP == P("None", 0, 0, 0)
Sent(kind, tag, meta, size, i) == [kind |-> kind, tag |-> tag, meta |-> meta, size |-> size, ch |-> i]
Item(op, k, c, p, v) == [op |-> op, k |-> k, c |-> c, p |-> p, v |-> v]
Wait(keys, c, p) == [keys |-> keys, c |-> c, p |-> p, live |-> TRUE]

TriggerKinds == {"BasicGetOK", "BasicDeliver", "BasicReturn"}
ContentKinds == {"ContentHeaderFrame", "ContentBodyFrame"}
CompletionKinds == {"ChannelOpenOK", "ExchangeDeclareOK", "BasicQosOK", "BasicGetEmpty"}
ReconConts == {"deliver_hdr", "deliver_body", "return_hdr", "return_body", "get_hdr", "get_body"}
UserConts == {"declare", "qos", "close", "get", "get_hdr", "get_body"}

\* --------------------------------------------------------- exchange names
Chars == {"a", "m", "q", ".", " ", "\n"}
WordChars == {"a", "m", "q"}
PunctChars == {".", "-", ":"}
AmqPrefix == <<"a", "m", "q", ".">>

HasAmqPrefix(name) ==
    /\ Len(name) >= Len(AmqPrefix)
    /\ SubSeq(name, 1, Len(AmqPrefix)) = AmqPrefix

\* '$' without MULTILINE matches at the end of the string and also just
\* before a newline that is the last character of the string.
AtDollar(name, n) ==
    \/ n = Len(name)
    \/ n = Len(name) - 1 /\ name[Len(name)] = "\n"

\* ^(?!amq\.)(\w|[-.:]){least,}$ with flags=re.A
Match(name, least) ==
    /\ ~HasAmqPrefix(name)
    /\ \E n \in least..Len(name) :
          /\ \A i \in 1..n : name[i] \in WordChars \cup PunctChars
          /\ AtDollar(name, n)

VALID_EXCHANGE_NAME_RE(name) == Match(name, 1)
VALID_QUEUE_NAME_RE(name) == Match(name, 0)

\* only characters the error message of declare_exchange allows
OnlyDocumentedChars(name) == \A i \in 1..Len(name) : name[i] \in WordChars \cup PunctChars

SeqsUpTo(S, n) == UNION {[1..m -> S] : m \in 0..n}
Names == SeqsUpTo(Chars, MaxNameLen)
             \cup {AmqPrefix, AmqPrefix \o <<"a">>, AmqPrefix \o <<"\n">>, <<"a", "m", "q">>}

VARIABLES
    next_channel_id,  \* ChannelFactory.next_channel_id
    handlers,         \* Dispatcher: channel id -> the open() call whose handler is registered (0: none)
    pcOpen,           \* per open() call: "new", "awaiting", "open", "failed"
    chId,             \* per open() call: the channel id its sender and Channel were built with
    removedId,        \* per open() call: the id its rollback asked the dispatcher to remove
    waits,            \* per channel object: the Synchroniser's pending waits, oldest first
    builder,          \* per channel object: MessageReceiver.message_builder
    callback,         \* per channel object: ReturnedMessageCatcher.callback (0: None)
    frame_queue,      \* per channel object: frames routed to the handler, not yet read
    getters,          \* per channel object: frame requests suspended on an empty queue
    runq,             \* the event loop's FIFO of ready callbacks
    out,              \* per channel id: the frames sent to the peer, in order
    srvPos,           \* per channel id: how many sent frames the peer has consumed
    srvState,         \* per channel id: the peer's view of the channel
    wire,             \* per channel id: frames the peer has sent, not yet dispatched
    faults,           \* exceptions that left a task or a call
    handoffs,         \* per channel object: completed messages and get results handed off
    lastFrame,        \* per channel object: the frame read last
    nEvents,          \* operations, timeouts and peer initiatives so far
    msgs,             \* the content sequences the peer has sent so far, by message number
    lastCall          \* the last Channel operation called, with its argument

vars == <<next_channel_id, handlers, pcOpen, chId, removedId, waits, builder, callback,
          frame_queue, getters, runq, out, srvPos, srvState, wire, faults, handoffs,
          lastFrame, nEvents, msgs, lastCall>>

Call(op, k, name) == [op |-> op, k |-> k, name |-> name]
NoCall == Call("none", 0, <<>>)

NoBuilder == [on |-> FALSE, meta |-> 0, tag |-> 0, hdr |-> -1, got |-> 0]

Init ==
    /\ next_channel_id = 1
    /\ handlers = [i \in Ids |-> 0]
    /\ pcOpen = [k \in Calls |-> "new"]
    /\ chId = [k \in Calls |-> 0]
    /\ removedId = [k \in Calls |-> 0]
    /\ waits = [k \in Calls |-> <<>>]
    /\ builder = [k \in Calls |-> NoBuilder]
    /\ callback = [k \in Calls |-> 0]
    /\ frame_queue = [k \in Calls |-> <<>>]
    /\ getters = [k \in Calls |-> 0]
    /\ runq = <<>>
    /\ out = [i \in Ids |-> <<>>]
    /\ srvPos = [i \in Ids |-> 0]
    /\ srvState = [i \in Ids |-> "none"]
    /\ wire = [i \in Ids |-> <<>>]
    /\ faults = {}
    /\ handoffs = [k \in Calls |-> <<>>]
    /\ lastFrame = [k \in Calls |-> NoP]
    /\ nEvents = 0
    /\ msgs = <<>>
    /\ lastCall = NoCall

\* --------------------------------------------------------------- scheduling
\* the peer has consumed every frame sent to it.  The client cannot see when
\* the peer reads a frame, only the order of the frames that come back, so the
\* peer answers a frame before the next step of the client or of the wire.
PeerIdle == \A i \in Ids : srvPos[i] = Len(out[i])

\* the loop has no callback to run.  Operations, timeouts and the peer's own
\* initiatives are placed at these points: a start only sends frames and appends
\* a wait, and the peer's frames stay on the wire until Dispatch, so placing
\* them between two callbacks of the loop gives no further behaviour.
LoopIdle == runq = <<>>

\* the transport hands the frames of one read to the dispatcher in one callback,
\* between callbacks of the loop: frames are dispatched while the loop holds
\* nothing but frame requests woken by this batch
BatchOpen == \A n \in 1..Len(runq) : runq[n].op = "read" /\ runq[n].p # NoP

\* ------------------------------------------------ one step of sequential code
\* A step of a task or call runs its statements in order on a record of the
\* state it can change; a raised exception (exc) skips the statements after it.
Begin(q) ==
    [runq |-> q, waits |-> waits, builder |-> builder, out |-> out,
     handoffs |-> handoffs, frame_queue |-> frame_queue, getters |-> getters,
     lastFrame |-> lastFrame, handlers |-> handlers,
     next_channel_id |-> next_channel_id, pcOpen |-> pcOpen,
     exc |-> "None", excp |-> NoP]

Raise(s, e, p) == IF s.exc # "None" THEN s ELSE [s EXCEPT !.exc = e, !.excp = p]

\* bases.FrameHandler.ready: request the next frame of the channel
ready(s, k) ==
    IF s.exc # "None" THEN s
    ELSE [s EXCEPT !.runq = Append(@, Item("read", k, "", NoP, NoP))]

\* asyncio.async(coro): the task's first step is queued on the loop
async(s, k, c, frame) ==
    IF s.exc # "None" THEN s
    ELSE [s EXCEPT !.runq = Append(@, Item("recv", k, c, frame, NoP))]

OldestWait(w, key) ==
    IF \E i \in 1..Len(w) : key \in w[i].keys
    THEN CHOOSE i \in 1..Len(w) : key \in w[i].keys /\ \A j \in 1..(i - 1) : key \notin w[j].keys
    ELSE 0

RemoveAt(w, i) == SubSeq(w, 1, i - 1) \o SubSeq(w, i + 1, Len(w))

\* Synchroniser.notify: resolve the oldest wait registered under key
notify(s, k, key, v) ==
    IF s.exc # "None" THEN s
    ELSE LET i == OldestWait(s.waits[k], key) IN
         IF i = 0 THEN Raise(s, "ProtocolFault", P(key, 0, 0, 0))
         ELSE LET w == s.waits[k][i] IN
              [s EXCEPT !.waits[k] = RemoveAt(@, i),
                        !.runq = IF w.live THEN Append(@, Item("resume", k, w.c, w.p, v)) ELSE @]

\* Synchroniser.await: register a wait; the caller suspends on it
await(s, k, keys, c, p) ==
    IF s.exc # "None" THEN s
    ELSE [s EXCEPT !.waits[k] = Append(@, Wait(keys, c, p))]

\* send_method, had every sender written on channel id 1
send_method_shared(s, k, kind) ==
    IF s.exc # "None" THEN s
    ELSE [s EXCEPT !.out[1] = Append(@, [kind |-> kind, k |-> k])]

\* bases.Sender.send_method on the sender of channel object k
send_method(s, k, kind) ==
    IF s.exc # "None" THEN s
    ELSE [s EXCEPT !.out[chId[k]] = Append(@, [kind |-> kind, k |-> k])]

handoff(s, k, dest, v, p) ==
    IF s.exc # "None" THEN s
    ELSE [s EXCEPT !.handoffs[k] = Append(@, [dest |-> dest, tag |-> v.tag, meta |-> v.meta,
                                              size |-> v.size, found |-> v.kind,
                                              by |-> p.kind, bymeta |-> p.meta, bytag |-> p.tag])]

\* the step's effects become the next state; an exception that leaves the
\* step is reported to the loop's exception handler
Commit(s, k) ==
    /\ runq' = s.runq
    /\ waits' = s.waits
    /\ builder' = s.builder
    /\ out' = s.out
    /\ handoffs' = s.handoffs
    /\ frame_queue' = s.frame_queue
    /\ getters' = s.getters
    /\ lastFrame' = s.lastFrame
    /\ handlers' = s.handlers
    /\ next_channel_id' = s.next_channel_id
    /\ pcOpen' = s.pcOpen
    /\ faults' = IF s.exc = "None" THEN faults
                 ELSE faults \cup {[k |-> k, exc |-> s.exc, p |-> s.excp]}

Others == <<removedId, callback, srvPos, srvState, wire, msgs, lastCall>>

V(kind) == P(kind, 0, 0, 0)

\* --------------------------------------------------------------- Dispatcher
add_handler(s, id, k) == IF s.exc # "None" THEN s ELSE [s EXCEPT !.handlers[id] = k]

remove_handler(s, id) == [s EXCEPT !.handlers[id] = 0]

\* ----------------------------------------------------------- ChannelFactory
\* open(), up to its suspension on the open-ok wait (lines 156-174); when the
\* send raises, the except clause of lines 175-177 runs in the same step.
StartOpen(k, sendOk) ==
    /\ PeerIdle /\ LoopIdle
    /\ pcOpen[k] = "new"
    /\ \A j \in 1..(k - 1) : pcOpen[j] # "new"
    /\ chId' = [chId EXCEPT ![k] = next_channel_id]
    /\ LET id == next_channel_id
           s1 == add_handler(Begin(runq), id, k)
           s2 == IF sendOk
                 THEN [s1 EXCEPT !.out[id] = Append(@, [kind |-> "ChannelOpen", k |-> k])]
                 ELSE Raise(s1, "SendError", NoP)
           s3 == ready(s2, k)
           s4 == await(s3, k, {"ChannelOpenOK"}, "open", NoP)
           s5 == IF s4.exc = "None"
                 THEN [s4 EXCEPT !.pcOpen[k] = "awaiting"]
                 ELSE [remove_handler(s4, s4.next_channel_id) EXCEPT !.pcOpen[k] = "failed"]
       IN /\ Commit(s5, k)
          /\ removedId' = [removedId EXCEPT ![k] = IF s4.exc = "None" THEN 0 ELSE s4.next_channel_id]
    /\ UNCHANGED <<callback, srvPos, srvState, wire, msgs, lastCall, nEvents>>

\* the open-ok wait raises (the caller's timeout cancels it, the connection
\* is lost): lines 175-177
OpenFail(k) ==
    /\ PeerIdle /\ LoopIdle
    /\ pcOpen[k] = "awaiting"
    /\ \E i \in 1..Len(waits[k]) : waits[k][i].c = "open" /\ waits[k][i].live
    /\ LET i == CHOOSE j \in 1..Len(waits[k]) : waits[k][j].c = "open"
           s1 == [Begin(runq) EXCEPT !.waits[k][i].live = FALSE]
           s2 == remove_handler(s1, s1.next_channel_id)
           s3 == Raise([s2 EXCEPT !.pcOpen[k] = "failed"], "OpenFailed", NoP)
       IN Commit(s3, k)
    /\ removedId' = [removedId EXCEPT ![k] = next_channel_id]
    /\ UNCHANGED <<chId, callback, srvPos, srvState, wire, msgs, lastCall, nEvents>>

\* open() after the open-ok wait is resolved (lines 179-181)
OpenResume ==
    /\ PeerIdle /\ runq # <<>> /\ Head(runq).op = "resume" /\ Head(runq).c = "open"
    /\ LET k == Head(runq).k
           s1 == [Begin(Tail(runq)) EXCEPT !.next_channel_id = @ + 1]
           s2 == ready(s1, k)
           s3 == [s2 EXCEPT !.pcOpen[k] = "open"]
       IN Commit(s3, k)
    /\ UNCHANGED <<Others, chId, nEvents>>

\* ------------------------------------------------------ ChannelFrameHandler
\* the handler, had it treated get-empty as the start of a content sequence
handle_getEmpty_as_trigger(s, k, frame) ==
    CASE frame.kind = "ChannelOpenOK" -> notify(s, k, "ChannelOpenOK", V("None"))
      [] frame.kind = "ExchangeDeclareOK" -> notify(s, k, "ExchangeDeclareOK", V("None"))
      [] frame.kind = "BasicQosOK" -> notify(s, k, "BasicQosOK", V("None"))
      [] frame.kind = "QueueDeclareOK" -> notify(s, k, "QueueDeclareOK", V("QueueName"))
      [] frame.kind = "BasicGetEmpty" -> async(s, k, "receive_getOK", frame)
      [] frame.kind = "ChannelCloseOK" -> notify(s, k, "ChannelCloseOK", V("None"))
      [] frame.kind = "ChannelClose" -> send_method(s, k, "ChannelCloseOK")
      [] frame.kind = "BasicGetOK" -> async(s, k, "receive_getOK", frame)
      [] frame.kind = "BasicDeliver" -> async(s, k, "receive_deliver", frame)
      [] frame.kind = "BasicReturn" -> async(s, k, "receive_return", frame)
      [] frame.kind = "ContentHeaderFrame" -> async(s, k, "receive_header", frame)
      [] frame.kind = "ContentBodyFrame" -> async(s, k, "receive_body", frame)
      [] OTHER -> Raise(s, "AttributeError", frame)

\* the handler, had it requested the next frame itself after a completion
\* frame, on top of the request the resumed caller makes
handle_with_ready(s, k, frame) ==
    CASE frame.kind = "ChannelOpenOK" -> ready(notify(s, k, "ChannelOpenOK", V("None")), k)
      [] frame.kind = "ExchangeDeclareOK" -> ready(notify(s, k, "ExchangeDeclareOK", V("None")), k)
      [] frame.kind = "BasicQosOK" -> ready(notify(s, k, "BasicQosOK", V("None")), k)
      [] frame.kind = "QueueDeclareOK" -> ready(notify(s, k, "QueueDeclareOK", V("QueueName")), k)
      [] frame.kind = "BasicGetEmpty" -> ready(notify(s, k, "BasicGetEmpty", V("False")), k)
      [] frame.kind = "ChannelCloseOK" -> notify(s, k, "ChannelCloseOK", V("None"))
      [] frame.kind = "ChannelClose" -> send_method(s, k, "ChannelCloseOK")
      [] frame.kind = "BasicGetOK" -> async(s, k, "receive_getOK", frame)
      [] frame.kind = "BasicDeliver" -> async(s, k, "receive_deliver", frame)
      [] frame.kind = "BasicReturn" -> async(s, k, "receive_return", frame)
      [] frame.kind = "ContentHeaderFrame" -> async(s, k, "receive_header", frame)
      [] frame.kind = "ContentBodyFrame" -> async(s, k, "receive_body", frame)
      [] OTHER -> Raise(s, "AttributeError", frame)

handle(s, k, frame) ==
    CASE frame.kind = "ChannelOpenOK" -> notify(s, k, "ChannelOpenOK", V("None"))
      [] frame.kind = "ExchangeDeclareOK" -> notify(s, k, "ExchangeDeclareOK", V("None"))
      [] frame.kind = "BasicQosOK" -> notify(s, k, "BasicQosOK", V("None"))
      [] frame.kind = "QueueDeclareOK" -> notify(s, k, "QueueDeclareOK", V("QueueName"))
      [] frame.kind = "BasicGetEmpty" -> notify(s, k, "BasicGetEmpty", V("False"))
      [] frame.kind = "ChannelCloseOK" -> notify(s, k, "ChannelCloseOK", V("None"))
      [] frame.kind = "ChannelClose" -> send_method(s, k, "ChannelCloseOK")
      [] frame.kind = "BasicGetOK" -> async(s, k, "receive_getOK", frame)
      [] frame.kind = "BasicDeliver" -> async(s, k, "receive_deliver", frame)
      [] frame.kind = "BasicReturn" -> async(s, k, "receive_return", frame)
      [] frame.kind = "ContentHeaderFrame" -> async(s, k, "receive_header", frame)
      [] frame.kind = "ContentBodyFrame" -> async(s, k, "receive_body", frame)
      [] OTHER -> Raise(s, "AttributeError", frame)

\* bases.FrameHandler: the frame request made by ready() takes the next frame
\* of the channel and handles it, or suspends until one is enqueued
ReadNext ==
    /\ PeerIdle /\ runq # <<>> /\ Head(runq).op = "read"
    /\ LET k == Head(runq).k
           it == Head(runq)
           s0 == Begin(Tail(runq))
       IN IF it.p = NoP /\ frame_queue[k] = <<>>
          THEN Commit([s0 EXCEPT !.getters[k] = @ + 1], k)
          ELSE LET frame == IF it.p # NoP THEN it.p ELSE Head(frame_queue[k])
                   s1 == IF it.p # NoP THEN s0 ELSE [s0 EXCEPT !.frame_queue[k] = Tail(@)]
                   s2 == [s1 EXCEPT !.lastFrame[k] = frame]
               IN Commit(handle(s2, k, frame), k)
    /\ UNCHANGED <<Others, chId, nEvents>>

\* ------------------------------------------------------------ MessageBuilder
MessageBuilder(meta, tag) == [on |-> TRUE, meta |-> meta, tag |-> tag, hdr |-> -1, got |-> 0]

set_header(s, k, size) ==
    IF s.exc # "None" THEN s
    ELSE IF ~s.builder[k].on THEN Raise(s, "AttributeError", NoP)
    ELSE IF s.builder[k].hdr # -1 THEN Raise(s, "BuilderFault", NoP)
    ELSE [s EXCEPT !.builder[k].hdr = size]

add_body_chunk(s, k, size) ==
    IF s.exc # "None" THEN s
    ELSE IF ~s.builder[k].on THEN Raise(s, "AttributeError", NoP)
    ELSE IF s.builder[k].hdr = -1 \/ s.builder[k].got + size > s.builder[k].hdr
         THEN Raise(s, "BuilderFault", NoP)
    ELSE [s EXCEPT !.builder[k].got = @ + size]

done(b) == b.hdr # -1 /\ b.got = b.hdr

build(b) == P("Msg", b.tag, b.meta, b.got)

\* ----------------------------------------------------------- MessageReceiver
receive_getOK ==
    /\ PeerIdle /\ runq # <<>> /\ Head(runq).op = "recv" /\ Head(runq).c = "receive_getOK"
    /\ LET k == Head(runq).k
           frame == Head(runq).p
           s1 == notify(Begin(Tail(runq)), k, "BasicGetOK", V("True"))
           s2 == IF s1.exc # "None" THEN s1
                 ELSE [s1 EXCEPT !.builder[k] = MessageBuilder(frame.meta, NoneTag)]
           s3 == ready(s2, k)
       IN Commit(s3, k)
    /\ UNCHANGED <<Others, chId, nEvents>>

\* receive_deliver, had it given up the loop after ready() without having
\* registered its wait on the header key
receive_deliver_unregistered ==
    /\ PeerIdle /\ runq # <<>> /\ Head(runq).op = "recv" /\ Head(runq).c = "receive_deliver"
    /\ LET k == Head(runq).k
           frame == Head(runq).p
           s1 == [Begin(Tail(runq)) EXCEPT !.builder[k] = MessageBuilder(frame.meta, frame.tag)]
           s2 == ready(s1, k)
       IN Commit(s2, k)
    /\ UNCHANGED <<Others, chId, nEvents>>

receive_deliver ==
    /\ PeerIdle /\ runq # <<>> /\ Head(runq).op = "recv" /\ Head(runq).c = "receive_deliver"
    /\ LET k == Head(runq).k
           frame == Head(runq).p
           s1 == [Begin(Tail(runq)) EXCEPT !.builder[k] = MessageBuilder(frame.meta, frame.tag)]
           s2 == ready(s1, k)
           s3 == await(s2, k, {"ContentHeaderFrame"}, "deliver_hdr", frame)
       IN Commit(s3, k)
    /\ UNCHANGED <<Others, chId, nEvents>>

\* receive_deliver from the header wait on (lines 283-286)
receive_deliver_resume ==
    /\ PeerIdle /\ runq # <<>> /\ Head(runq).op = "resume"
    /\ Head(runq).c \in {"deliver_hdr", "deliver_body"}
    /\ LET k == Head(runq).k
           it == Head(runq)
           s0 == Begin(Tail(runq))
       IN IF it.c = "deliver_hdr"
          THEN Commit(await(s0, k, {"ContentBodyFrame"}, "deliver_body", it.p), k)
          ELSE Commit(ready(handoff(s0, k, "consumers", it.v, it.p), k), k)
    /\ UNCHANGED <<Others, chId, nEvents>>

receive_return ==
    /\ PeerIdle /\ runq # <<>> /\ Head(runq).op = "recv" /\ Head(runq).c = "receive_return"
    /\ LET k == Head(runq).k
           frame == Head(runq).p
           s1 == [Begin(Tail(runq)) EXCEPT !.builder[k] = MessageBuilder(frame.meta, NoneTag)]
           s2 == ready(s1, k)
           s3 == await(s2, k, {"ContentHeaderFrame"}, "return_hdr", frame)
       IN Commit(s3, k)
    /\ UNCHANGED <<Others, chId, nEvents>>

\* ReturnedMessageCatcher.handle_returned_message
handle_returned_message(s, k, msg, p) ==
    IF s.exc # "None" THEN s
    ELSE IF callback[k] = 0 THEN Raise(handoff(s, k, "catcher", msg, p), "UndeliverableMessage", msg)
    ELSE [handoff(s, k, "catcher", msg, p) EXCEPT !.runq = Append(@, Item("callback", k, "", NoP, msg))]

\* receive_return, had it invoked the catcher before requesting the next frame
receive_return_resume_catcher_first ==
    /\ PeerIdle /\ runq # <<>> /\ Head(runq).op = "resume"
    /\ Head(runq).c \in {"return_hdr", "return_body"}
    /\ LET k == Head(runq).k
           it == Head(runq)
           s0 == Begin(Tail(runq))
       IN IF it.c = "return_hdr"
          THEN Commit(await(s0, k, {"ContentBodyFrame"}, "return_body", it.p), k)
          ELSE LET s1 == IF it.v.tag # NoneTag THEN Raise(s0, "AssertionError", it.v) ELSE s0
                   s2 == handle_returned_message(s1, k, it.v, it.p)
               IN Commit(ready(s2, k), k)
    /\ UNCHANGED <<Others, chId, nEvents>>

\* receive_return from the header wait on (lines 299-304)
receive_return_resume ==
    /\ PeerIdle /\ runq # <<>> /\ Head(runq).op = "resume"
    /\ Head(runq).c \in {"return_hdr", "return_body"}
    /\ LET k == Head(runq).k
           it == Head(runq)
           s0 == Begin(Tail(runq))
       IN IF it.c = "return_hdr"
          THEN Commit(await(s0, k, {"ContentBodyFrame"}, "return_body", it.p), k)
          ELSE LET s1 == IF it.v.tag # NoneTag THEN Raise(s0, "AssertionError", it.v) ELSE s0
                   s2 == ready(s1, k)
               IN Commit(handle_returned_message(s2, k, it.v, it.p), k)
    /\ UNCHANGED <<Others, chId, nEvents>>

receive_header ==
    /\ PeerIdle /\ runq # <<>> /\ Head(runq).op = "recv" /\ Head(runq).c = "receive_header"
    /\ LET k == Head(runq).k
           frame == Head(runq).p
           s1 == notify(Begin(Tail(runq)), k, "ContentHeaderFrame", V("None"))
           s2 == set_header(s1, k, frame.size)
           s3 == ready(s2, k)
       IN Commit(s3, k)
    /\ UNCHANGED <<Others, chId, nEvents>>

\* receive_body, had it notified on every chunk without asking done()
receive_body_early ==
    /\ PeerIdle /\ runq # <<>> /\ Head(runq).op = "recv" /\ Head(runq).c = "receive_body"
    /\ LET k == Head(runq).k
           frame == Head(runq).p
           s1 == add_body_chunk(Begin(Tail(runq)), k, frame.size)
           s2 == notify(s1, k, "ContentBodyFrame", build(s1.builder[k]))
           s3 == IF s2.exc # "None" THEN s2 ELSE [s2 EXCEPT !.builder[k] = NoBuilder]
       IN Commit(s3, k)
    /\ UNCHANGED <<Others, chId, nEvents>>

receive_body ==
    /\ PeerIdle /\ runq # <<>> /\ Head(runq).op = "recv" /\ Head(runq).c = "receive_body"
    /\ LET k == Head(runq).k
           frame == Head(runq).p
           s1 == add_body_chunk(Begin(Tail(runq)), k, frame.size)
       IN IF s1.exc = "None" /\ done(s1.builder[k])
          THEN LET s2 == notify(s1, k, "ContentBodyFrame", build(s1.builder[k]))
                   s3 == IF s2.exc # "None" THEN s2 ELSE [s2 EXCEPT !.builder[k] = NoBuilder]
               IN Commit(s3, k)
          ELSE Commit(ready(s1, k), k)
    /\ UNCHANGED <<Others, chId, nEvents>>

\* the user's return handler, run by the loop (loop.call_soon, line 408)
RunCallback ==
    /\ PeerIdle /\ runq # <<>> /\ Head(runq).op = "callback"
    /\ runq' = Tail(runq)
    /\ handoffs' = [handoffs EXCEPT ![Head(runq).k] =
                       Append(@, [dest |-> "callback", tag |-> Head(runq).v.tag,
                                  meta |-> Head(runq).v.meta, size |-> Head(runq).v.size,
                                  found |-> "Msg", by |-> "loop", bymeta |-> 0, bytag |-> 0])]
    /\ UNCHANGED <<next_channel_id, handlers, pcOpen, chId, removedId, waits, builder, callback,
                   frame_queue, getters, out, srvPos, srvState, wire, faults,
                   lastFrame, nEvents, msgs, lastCall>>

\* ------------------------------------------------------------------ Channel
CanCall(k) == PeerIdle /\ LoopIdle /\ pcOpen[k] = "open" /\ nEvents < MaxEvents

Called(k, op, name) ==
    /\ nEvents' = nEvents + 1
    /\ lastCall' = Call(op, k, name)
    /\ UNCHANGED <<chId, removedId, callback, srvPos, srvState, wire, msgs>>

\* declare_exchange up to its suspension (lines 54-63)
declare_exchange(k, name) ==
    /\ CanCall(k)
    /\ LET s0 == Begin(runq)
       IN IF name = <<>> THEN Commit(handoff(s0, k, "exchange", V("Exchange"), NoP), k)
          ELSE IF ~VALID_EXCHANGE_NAME_RE(name) THEN Commit(Raise(s0, "ValueError", NoP), k)
          ELSE Commit(await(send_method(s0, k, "ExchangeDeclare"), k,
                            {"ExchangeDeclareOK"}, "declare", NoP), k)
    /\ Called(k, "declare_exchange", name)

\* declare_exchange after its wait is resolved (lines 64-66)
declare_exchange_resume ==
    /\ PeerIdle /\ runq # <<>> /\ Head(runq).op = "resume" /\ Head(runq).c = "declare"
    /\ Commit(handoff(ready(Begin(Tail(runq)), Head(runq).k), Head(runq).k,
                      "exchange", V("Exchange"), NoP), Head(runq).k)
    /\ UNCHANGED <<Others, chId, nEvents>>

\* declare_queue -> QueueFactory.declare up to its suspension: the name is
\* checked against VALID_QUEUE_NAME_RE, then one declare frame and one wait
declare_queue(k, name) ==
    /\ CanCall(k)
    /\ LET s0 == Begin(runq)
       IN IF ~VALID_QUEUE_NAME_RE(name) THEN Commit(Raise(s0, "ValueError", NoP), k)
          ELSE Commit(await(send_method(s0, k, "QueueDeclare"), k,
                            {"QueueDeclareOK"}, "declare_queue", NoP), k)
    /\ Called(k, "declare_queue", name)

\* QueueFactory.declare after its wait is resolved: the Queue is returned
declare_queue_resume ==
    /\ PeerIdle /\ runq # <<>> /\ Head(runq).op = "resume" /\ Head(runq).c = "declare_queue"
    /\ Commit(handoff(ready(Begin(Tail(runq)), Head(runq).k), Head(runq).k,
                      "queue", Head(runq).v, NoP), Head(runq).k)
    /\ UNCHANGED <<Others, chId, nEvents>>

\* set_qos up to its suspension (lines 128-129)
set_qos(k) ==
    /\ CanCall(k)
    /\ Commit(await(send_method(Begin(runq), k, "BasicQos"), k, {"BasicQosOK"}, "qos", NoP), k)
    /\ Called(k, "set_qos", <<>>)

\* set_qos after its wait is resolved (line 130)
set_qos_resume ==
    /\ PeerIdle /\ runq # <<>> /\ Head(runq).op = "resume" /\ Head(runq).c = "qos"
    /\ Commit(ready(Begin(Tail(runq)), Head(runq).k), Head(runq).k)
    /\ UNCHANGED <<Others, chId, nEvents>>

\* close up to its suspension (lines 98-99)
close(k) ==
    /\ CanCall(k)
    /\ Commit(await(send_method(Begin(runq), k, "ChannelClose"), k, {"ChannelCloseOK"}, "close", NoP), k)
    /\ Called(k, "close", <<>>)

\* close, had it requested the next frame like the other operations
close_resume_ready ==
    /\ PeerIdle /\ runq # <<>> /\ Head(runq).op = "resume" /\ Head(runq).c = "close"
    /\ Commit(ready(handoff(Begin(Tail(runq)), Head(runq).k, "closed", V("None"), NoP),
                    Head(runq).k), Head(runq).k)
    /\ UNCHANGED <<Others, chId, nEvents>>

\* close after its wait is resolved (line 100): no ready()
close_resume ==
    /\ PeerIdle /\ runq # <<>> /\ Head(runq).op = "resume" /\ Head(runq).c = "close"
    /\ Commit(handoff(Begin(Tail(runq)), Head(runq).k, "closed", V("None"), NoP), Head(runq).k)
    /\ UNCHANGED <<Others, chId, nEvents>>

\* Queue.get up to its suspension: one get frame, one wait on get-ok/get-empty
get(k) ==
    /\ CanCall(k)
    /\ Commit(await(send_method(Begin(runq), k, "BasicGet"), k,
                    {"BasicGetOK", "BasicGetEmpty"}, "get", NoP), k)
    /\ Called(k, "get", <<>>)

\* Queue.get after a wait is resolved: found=false returns at once; found=true
\* waits for the header, then for the completed message, and then calls
\* handler.ready() (channel.py lines 320-322)
get_resume ==
    /\ PeerIdle /\ runq # <<>> /\ Head(runq).op = "resume"
    /\ Head(runq).c \in {"get", "get_hdr", "get_body"}
    /\ LET k == Head(runq).k
           it == Head(runq)
           s0 == Begin(Tail(runq))
       IN CASE it.c = "get" /\ it.v.kind = "True" ->
                 Commit(await(s0, k, {"ContentHeaderFrame"}, "get_hdr", P("BasicGetOK", 0, 0, 0)), k)
            [] it.c = "get" /\ it.v.kind # "True" ->
                 Commit(handoff(ready(s0, k), k, "get", it.v, P("BasicGetEmpty", 0, 0, 0)), k)
            [] it.c = "get_hdr" ->
                 Commit(await(s0, k, {"ContentBodyFrame"}, "get_body", it.p), k)
            [] it.c = "get_body" ->
                 Commit(handoff(ready(s0, k), k, "get", it.v, it.p), k)
    /\ UNCHANGED <<Others, chId, nEvents>>

\* set_return_handler -> ReturnedMessageCatcher.set_callback; h = 0 is None
set_return_handler(k, h) ==
    /\ CanCall(k)
    /\ IF h = 0
       THEN /\ faults' = faults \cup {[k |-> k, exc |-> "TypeError", p |-> NoP]}
            /\ UNCHANGED callback
       ELSE /\ callback' = [callback EXCEPT ![k] = h]
            /\ UNCHANGED faults
    /\ nEvents' = nEvents + 1
    /\ lastCall' = Call("set_return_handler", k, IF h = 0 THEN <<"None">> ELSE <<"callable">>)
    /\ UNCHANGED <<next_channel_id, handlers, pcOpen, chId, removedId, waits, builder,
                   frame_queue, getters, runq, out, srvPos, srvState, wire, handoffs,
                   lastFrame, msgs>>

\* a caller gives up its pending wait under its own timeout: the coroutine is
\* cancelled at its suspension point, the wait stays in the table
Abandon(k) ==
    /\ PeerIdle /\ LoopIdle
    /\ nEvents < MaxEvents
    /\ \E i \in 1..Len(waits[k]) :
          /\ waits[k][i].live /\ waits[k][i].c \in UserConts
          /\ waits' = [waits EXCEPT ![k][i].live = FALSE]
    /\ nEvents' = nEvents + 1
    /\ UNCHANGED <<next_channel_id, handlers, pcOpen, chId, removedId, builder, callback,
                   frame_queue, getters, runq, out, srvPos, srvState, wire, faults, handoffs,
                   lastFrame, msgs, lastCall>>

\* ------------------------------------------------------- the peer (broker)
\* the body lengths the peer declares: the empty body and the longest one
BodySizes == {0, MaxBody}

\* a body of the given size cut into frames of at most FrameMax bytes
RECURSIVE Chunks(_)
Chunks(size) ==
    IF size = 0 THEN <<>>
    ELSE IF size <= FrameMax THEN <<size>>
    ELSE <<FrameMax>> \o Chunks(size - FrameMax)

Bodies(c) == [i \in 1..Len(c) |-> P("ContentBodyFrame", 0, 0, c[i])]

Content(kind, tag, meta, size) ==
    <<P(kind, tag, meta, 0), P("ContentHeaderFrame", 0, 0, size)>> \o Bodies(Chunks(size))

EnvUnchanged ==
    UNCHANGED <<next_channel_id, handlers, pcOpen, chId, removedId, waits, builder, callback,
                frame_queue, getters, runq, out, faults, handoffs, lastFrame, lastCall>>

\* the peer consumes the next frame sent on channel id i and answers it
ServerRespond(i) ==
    /\ srvPos[i] < Len(out[i])
    /\ srvPos' = [srvPos EXCEPT ![i] = @ + 1]
    /\ LET req == out[i][srvPos[i] + 1].kind
       IN CASE req = "ChannelOpen" /\ srvState[i] = "none" ->
                 /\ wire' = [wire EXCEPT ![i] = Append(@, V("ChannelOpenOK"))]
                 /\ srvState' = [srvState EXCEPT ![i] = "open"]
                 /\ UNCHANGED msgs
            [] req = "ExchangeDeclare" /\ srvState[i] = "open" ->
                 /\ wire' = [wire EXCEPT ![i] = Append(@, V("ExchangeDeclareOK"))]
                 /\ UNCHANGED <<srvState, msgs>>
            [] req = "QueueDeclare" /\ srvState[i] = "open" ->
                 /\ wire' = [wire EXCEPT ![i] = Append(@, V("QueueDeclareOK"))]
                 /\ UNCHANGED <<srvState, msgs>>
            [] req = "BasicQos" /\ srvState[i] = "open" ->
                 /\ wire' = [wire EXCEPT ![i] = Append(@, V("BasicQosOK"))]
                 /\ UNCHANGED <<srvState, msgs>>
            [] req = "BasicGet" /\ srvState[i] = "open" ->
                 /\ \/ /\ wire' = [wire EXCEPT ![i] = Append(@, V("BasicGetEmpty"))]
                       /\ UNCHANGED msgs
                    \/ /\ \E size \in BodySizes :
                             /\ wire' = [wire EXCEPT ![i] = @ \o Content("BasicGetOK", NoneTag, Len(msgs) + 1, size)]
                             /\ msgs' = Append(msgs, Sent("BasicGetOK", NoneTag, Len(msgs) + 1, size, i))
                 /\ UNCHANGED srvState
            [] req = "ChannelClose" /\ srvState[i] \in {"open", "closing"} ->
                 /\ wire' = [wire EXCEPT ![i] = Append(@, V("ChannelCloseOK"))]
                 /\ srvState' = [srvState EXCEPT ![i] = "closed"]
                 /\ UNCHANGED msgs
            [] req = "ChannelCloseOK" /\ srvState[i] = "closing" ->
                 /\ srvState' = [srvState EXCEPT ![i] = "closed"]
                 /\ UNCHANGED <<wire, msgs>>
            [] OTHER -> UNCHANGED <<wire, srvState, msgs>>
    /\ UNCHANGED nEvents
    /\ EnvUnchanged

\* the peer pushes a delivery or a returned message on an open channel
ServerPush(i, kind, tag, size) ==
    /\ PeerIdle /\ LoopIdle
    /\ srvState[i] = "open"
    /\ nEvents < MaxEvents
    /\ wire' = [wire EXCEPT ![i] = @ \o Content(kind, tag, Len(msgs) + 1, size)]
    /\ msgs' = Append(msgs, Sent(kind, tag, Len(msgs) + 1, size, i))
    /\ nEvents' = nEvents + 1
    /\ UNCHANGED <<srvPos, srvState>>
    /\ EnvUnchanged

\* the peer closes the channel
ServerClose(i) ==
    /\ PeerIdle /\ LoopIdle
    /\ srvState[i] = "open"
    /\ wire' = [wire EXCEPT ![i] = Append(@, V("ChannelClose"))]
    /\ srvState' = [srvState EXCEPT ![i] = "closing"]
    /\ nEvents < MaxEvents
    /\ nEvents' = nEvents + 1
    /\ UNCHANGED <<srvPos, msgs>>
    /\ EnvUnchanged

\* Dispatcher.dispatch: route the next inbound frame of channel id i to the
\* handler registered under i
Dispatch(i) ==
    /\ PeerIdle /\ BatchOpen
    /\ wire[i] # <<>>
    /\ wire' = [wire EXCEPT ![i] = Tail(@)]
    /\ LET h == handlers[i]
           frame == Head(wire[i])
       IN IF h = 0
          THEN /\ faults' = faults \cup {[k |-> 0, exc |-> "NoHandler", p |-> frame]}
               /\ UNCHANGED <<frame_queue, getters, runq>>
          ELSE IF getters[h] > 0
          THEN /\ getters' = [getters EXCEPT ![h] = @ - 1]
               /\ runq' = Append(runq, Item("read", h, "", frame, NoP))
               /\ UNCHANGED <<frame_queue, faults>>
          ELSE /\ frame_queue' = [frame_queue EXCEPT ![h] = Append(@, frame)]
               /\ UNCHANGED <<getters, runq, faults>>
    /\ UNCHANGED <<next_channel_id, handlers, pcOpen, chId, removedId, waits, builder, callback,
                   out, srvPos, srvState, handoffs, lastFrame,
                   nEvents, msgs, lastCall>>

\* ------------------------------------------------------------ specification
\* one channel on the connection, with its operations and the peer
Next ==
    \/ StartOpen(1, TRUE)
    \/ declare_exchange(1, <<"a">>)
    \/ declare_exchange_resume
    \/ set_qos(1)
    \/ set_qos_resume
    \/ close(1)
    \/ close_resume
    \/ get(1)
    \/ get_resume
    \/ \E h \in 0..1 : set_return_handler(1, h)
    \/ Abandon(1)
    \/ ReadNext
    \/ OpenResume
    \/ receive_getOK
    \/ receive_deliver
    \/ receive_deliver_resume
    \/ receive_return
    \/ receive_return_resume
    \/ receive_header
    \/ receive_body
    \/ RunCallback
    \/ \E i \in Ids : ServerRespond(i)
    \/ \E i \in Ids : \E size \in BodySizes : \E tag \in ConsumerTags :
          ServerPush(i, "BasicDeliver", tag, size)
    \/ \E i \in Ids : \E size \in BodySizes : ServerPush(i, "BasicReturn", NoneTag, size)
    \/ \E i \in Ids : ServerClose(i)
    \/ \E i \in Ids : Dispatch(i)

Spec == Init /\ [][Next]_vars

\* the open() calls of a connection, overlapping and failing, with the peer's
\* answers to them
NextFactory ==
    \/ \E k \in Calls : \E sendOk \in BOOLEAN : StartOpen(k, sendOk)
    \/ \E k \in Calls : OpenFail(k)
    \/ OpenResume
    \/ ReadNext
    \/ \E i \in Ids : ServerRespond(i)
    \/ \E i \in Ids : Dispatch(i)

SpecFactory == Init /\ [][NextFactory]_vars

\* declare_exchange on an open channel, over the generated names
NextNames ==
    \/ StartOpen(1, TRUE)
    \/ \E name \in Names : declare_exchange(1, name)
    \/ declare_exchange_resume
    \/ \E name \in Names : declare_queue(1, name)
    \/ declare_queue_resume
    \/ OpenResume
    \/ ReadNext
    \/ \E i \in Ids : ServerRespond(i)
    \/ \E i \in Ids : Dispatch(i)

SpecNames == Init /\ [][NextNames]_vars

\* two channels of one connection: gets and deliveries on each of them, in
\* every order the loop and the wire allow
TwoCalls == {1, 2}

NextChannels ==
    \/ \E k \in TwoCalls : StartOpen(k, TRUE)
    \/ \E k \in TwoCalls : get(k)
    \/ get_resume
    \/ ReadNext
    \/ OpenResume
    \/ receive_getOK
    \/ receive_deliver
    \/ receive_deliver_resume
    \/ receive_header
    \/ receive_body
    \/ \E i \in Ids : ServerRespond(i)
    \/ \E i \in Ids : \E tag \in ConsumerTags : ServerPush(i, "BasicDeliver", tag, MaxBody)
    \/ \E i \in Ids : Dispatch(i)

SpecChannels == Init /\ [][NextChannels]_vars

\* ------------------------------------------------------------------ notions
\* frame requests of channel object k that no frame has answered yet
Outstanding(k) ==
    getters[k] + Cardinality({n \in 1..Len(runq) : runq[n].op = "read" /\ runq[n].k = k})

\* reconstruction sequences of k that have started and not handed off
Recon(k) ==
    Cardinality({n \in 1..Len(waits[k]) : waits[k][n].c \in ReconConts})
    + Cardinality({n \in 1..Len(runq) :
          /\ runq[n].op = "resume" /\ runq[n].k = k
          /\ \/ runq[n].c \in ReconConts
             \/ runq[n].c = "get" /\ runq[n].v.kind = "True"})

\* the loop is about to handle a frame of k
Reading(k) ==
    /\ PeerIdle /\ runq # <<>> /\ Head(runq).op = "read" /\ Head(runq).k = k
    /\ Head(runq).p # NoP \/ frame_queue[k] # <<>>

FrameRead(k) == IF Head(runq).p # NoP THEN Head(runq).p ELSE Head(frame_queue[k])

HandedOff(k) == {handoffs[k][n] : n \in 1..Len(handoffs[k])}

Last(q) == q[Len(q)]

\* ------------------------------------------------------------------- claims
\* C1 (as stated): readiness gating.  A channel never has two frame requests
\* outstanding, and while a reconstruction sequence is in flight the only
\* frames handled on the channel are content header and content body frames.
C1_ReadinessGating ==
    \A k \in Calls :
        /\ Outstanding(k) <= 1
        /\ Reading(k) /\ FrameRead(k).kind \notin ContentKinds => Recon(k) = 0

\* C2 (as stated): channel ids are unique and increasing.  Calls are numbered
\* in the order they start; a later call holds a strictly greater id than
\* every earlier call.
C2_UniqueIds ==
    \A j \in Calls : \A k \in Calls :
        j < k /\ chId[j] # 0 /\ chId[k] # 0 => chId[j] < chId[k]

\* C3 (as stated): the get wait is resolved as found with the message, and
\* only after the header and body frames of the message have been handled.
C3_GetResolvedAtCompletion ==
    \A n \in 1..Len(runq) :
        runq[n].op = "resume" /\ runq[n].c = "get" /\ runq[n].v.kind # "False"
            => /\ runq[n].v.kind = "Msg"
               /\ lastFrame[runq[n].k].kind \in ContentKinds

\* C3 (amended): the get wait is resolved with found=true while the get-ok
\* trigger is the frame handled last, before the header and the body; the
\* message is carried by the content-body notification, which is issued only
\* when a body frame has been handled and the whole declared body is there.
C3_GetResolvedAtTrigger ==
    \A n \in 1..Len(runq) :
        LET it == runq[n] IN
        /\ it.op = "resume" /\ it.c = "get" /\ it.v.kind # "False"
              => it.v.kind = "True" /\ lastFrame[it.k].kind = "BasicGetOK"
        /\ it.op = "resume" /\ it.c \in {"get_body", "deliver_body", "return_body"}
              => /\ it.v.kind = "Msg"
                 /\ lastFrame[it.k].kind = "ContentBodyFrame"
                 /\ it.v.size = msgs[it.v.meta].size

C3_Witness ==
    \E k \in Calls : \E h \in HandedOff(k) :
        h.dest = "get" /\ h.found = "Msg" /\ h.size = MaxBody /\ h.by = "BasicGetOK"

\* C4 (as stated): after a header declaring body length 0 the message is
\* complete: once the loop has run out of callbacks the message has been
\* handed off, the builder slot is empty and the next frame is requested.
C4_EmptyBodyHandedOff ==
    \A k \in Calls :
        /\ lastFrame[k].kind = "ContentHeaderFrame" /\ lastFrame[k].size = 0
        /\ runq = <<>> /\ faults = {}
        /\ \A n \in 1..Len(waits[k]) : waits[k][n].live
        => /\ ~builder[k].on
           /\ handoffs[k] # <<>> /\ Last(handoffs[k]).size = 0
           /\ getters[k] = 1

\* C5 (as stated): a returned message is routed to the catcher and to nothing
\* else; the catcher receives only messages of return sequences; with no
\* callback the fault carries that message, with a callback it is scheduled.
C5_UndeliverableRouting ==
    \A k \in Calls : \A h \in HandedOff(k) :
        /\ h.found = "Msg" /\ msgs[h.meta].kind = "BasicReturn" => h.dest \in {"catcher", "callback"}
        /\ h.dest \in {"catcher", "callback"} => msgs[h.meta].kind = "BasicReturn" /\ h.size = msgs[h.meta].size
        /\ h.dest = "catcher" /\ callback[k] = 0 =>
              [k |-> k, exc |-> "UndeliverableMessage", p |-> P("Msg", 0, h.meta, h.size)] \in faults

\* C6 (as stated): once a completion frame has been handled and the loop has
\* run out of callbacks, the next frame of the channel is requested, whatever
\* became of the caller that registered the wait.
C6_CompletionSignalsReadiness ==
    \A k \in Calls :
        /\ lastFrame[k].kind \in CompletionKinds
        /\ runq = <<>> /\ faults = {}
        => getters[k] = 1

\* C7 (as stated): the step that handles a channel-close from the peer sends
\* one close-ok and leaves no caller suspended on a wait of the channel, and
\* from then on no frame is requested on the channel.
C7_PeerClose ==
    /\ [][\A k \in Calls :
             /\ Reading(k) /\ FrameRead(k).kind = "ChannelClose"
             /\ wire' = wire /\ runq' # runq
             => /\ out'[chId[k]] = Append(out[chId[k]], [kind |-> "ChannelCloseOK", k |-> k])
                /\ \A n \in 1..Len(waits'[k]) : ~waits'[k][n].live]_vars
    /\ [](\A k \in Calls : lastFrame[k].kind = "ChannelClose" => Outstanding(k) = 0)

\* C8: close() returns only when close-ok is the frame handled last, and once
\* close-ok has been handled no frame request is made on the channel.
C8_NoReadyAfterCloseOK ==
    \A k \in Calls :
        /\ lastFrame[k].kind = "ChannelCloseOK" => Outstanding(k) = 0
        /\ (\E h \in HandedOff(k) : h.dest = "closed") => lastFrame[k].kind = "ChannelCloseOK"

C8_Witness ==
    \E k \in Calls :
        /\ \E h \in HandedOff(k) : h.dest = "closed"
        /\ \E h \in HandedOff(k) : h.dest = "consumers"
        /\ frame_queue[k] = <<>> /\ runq = <<>>

\* C9 (as stated): a failed open() removes the handler under the id it
\* registered it with.
C9_RollbackOwnId ==
    \A k \in Calls : pcOpen[k] = "failed" => removedId[k] = chId[k]

\* C10 (as stated): declare_exchange with a name that begins with 'amq.' or
\* holds a character outside letters, digits, underscore, hyphen, period and
\* colon raises ValueError and sends nothing, registers no wait and requests
\* no frame.
InvalidName(name) == HasAmqPrefix(name) \/ ~OnlyDocumentedChars(name)

C10_InvalidNameRejected ==
    [][nEvents' = nEvents + 1 /\ lastCall'.op = "declare_exchange" /\ InvalidName(lastCall'.name)
         => /\ out' = out /\ waits' = waits /\ runq' = runq /\ getters' = getters
            /\ [k |-> lastCall'.k, exc |-> "ValueError", p |-> NoP] \in faults']_vars

\* C11 (as stated): the empty name is accepted for a queue (a declare frame
\* is sent, nothing is raised) and rejected for an exchange (ValueError is
\* raised and no exchange is returned).
C11_EmptyNameOnlyForQueues ==
    [][nEvents' = nEvents + 1 /\ lastCall'.name = <<>>
         => /\ lastCall'.op = "declare_queue"
                => /\ faults' = faults
                   /\ out'[chId[lastCall'.k]] =
                         Append(out[chId[lastCall'.k]], [kind |-> "QueueDeclare", k |-> lastCall'.k])
            /\ lastCall'.op = "declare_exchange"
                => /\ [k |-> lastCall'.k, exc |-> "ValueError", p |-> NoP] \in faults'
                   /\ handoffs' = handoffs /\ out' = out]_vars

\* C12 (as stated): when the set_return_handler call made last was
\* set_return_handler(None), the catcher holds no callback, so a returned
\* message raises UndeliverableMessage instead of reaching an earlier callback.
C12_NoneRestoresDefault ==
    \A k \in Calls :
        lastCall = Call("set_return_handler", k, <<"None">>) => callback[k] = 0

\* C13: a get-empty frame resolves the get wait with found=false in the step
\* that handles it, starts no receiver task and touches no builder; the getter
\* resumed with found=false returns without registering a further wait.
C13_GetEmptyTriggerOnly ==
    /\ [](\A n \in 1..Len(runq) :
            /\ runq[n].op = "recv" => runq[n].p.kind # "BasicGetEmpty"
            /\ runq[n].op = "resume" /\ runq[n].c = "get" /\ runq[n].v.kind # "True"
                  => runq[n].v.kind = "False" /\ lastFrame[runq[n].k].kind = "BasicGetEmpty")
    /\ [][\A k \in Calls :
             /\ Reading(k) /\ FrameRead(k).kind = "BasicGetEmpty"
             /\ wire' = wire /\ runq' # runq
             => /\ builder' = builder /\ faults' = faults
                /\ \E i \in 1..Len(waits[k]) :
                      /\ "BasicGetEmpty" \in waits[k][i].keys
                      /\ waits'[k] = RemoveAt(waits[k], i)
                      /\ waits[k][i].live =>
                            Last(runq') = Item("resume", k, "get", NoP, V("False"))]_vars
    /\ [][/\ PeerIdle /\ runq # <<>> /\ Head(runq).op = "resume" /\ Head(runq).c = "get"
          /\ Head(runq).v.kind = "False" /\ runq' # runq
          => /\ waits' = waits /\ builder' = builder
             /\ Last(handoffs'[Head(runq).k]).found = "False"]_vars

C13_Witness ==
    \E k \in Calls : \E h \in HandedOff(k) :
        /\ h.dest = "get" /\ h.found = "False" /\ h.by = "BasicGetEmpty"
        /\ lastFrame[k].kind = "BasicGetEmpty" /\ ~builder[k].on

\* everything that belongs to channel object j: its waits, builder, hand-offs,
\* frame queue, frame requests, callbacks queued on the loop, and the frames
\* sent under its id
ChanState(j) ==
    <<waits[j], builder[j], handoffs[j], frame_queue[j], getters[j], lastFrame[j],
      callback[j], out[chId[j]], SelectSeq(runq, LAMBDA it : it.k = j)>>

\* C14: two open channels have different ids; a callback of the loop run for
\* one channel, an operation called on it, and a frame dispatched to it change
\* nothing of any other open channel; and every message a channel hands off
\* was sent by the peer on that channel's id, complete.
C14_ChannelsIndependent ==
    /\ [](\A j \in Calls : \A k \in Calls :
            j # k /\ pcOpen[j] = "open" /\ pcOpen[k] = "open" => chId[j] # chId[k])
    /\ [](\A k \in Calls : \A h \in HandedOff(k) :
            h.found = "Msg" => msgs[h.meta].ch = chId[k] /\ msgs[h.meta].size = h.size)
    /\ [][\A j \in Calls : \A k \in Calls :
             /\ j # k /\ pcOpen[j] = "open" /\ pcOpen[k] = "open"
             /\ \/ PeerIdle /\ runq # <<>> /\ Head(runq).k = k /\ wire' = wire
                \/ nEvents' = nEvents + 1 /\ lastCall' # lastCall /\ lastCall'.k = k
                \/ wire'[chId[k]] # wire[chId[k]]
                \/ srvPos'[chId[k]] # srvPos[chId[k]]
             => ChanState(j)' = ChanState(j)]_vars

C14_Witness ==
    \E j \in Calls : \E k \in Calls :
        /\ j # k /\ pcOpen[j] = "open" /\ pcOpen[k] = "open"
        /\ \E h \in HandedOff(j) : h.found = "Msg"
        /\ \E h \in HandedOff(k) : h.found = "Msg"

\* C15: when receive_return resumes with the completed message and no callback
\* is registered, the step raises UndeliverableMessage with that message and
\* has requested the next frame of the channel all the same.
C15_ReadyBeforeCatcher ==
    [][\A k \in Calls :
          /\ PeerIdle /\ runq # <<>> /\ Head(runq).op = "resume" /\ Head(runq).k = k
          /\ Head(runq).c = "return_body" /\ Head(runq).v.tag = NoneTag
          /\ callback[k] = 0 /\ runq' # runq
          => /\ [k |-> k, exc |-> "UndeliverableMessage", p |-> Head(runq).v] \in faults'
             /\ Outstanding(k)' = Outstanding(k) + 1]_vars

\* the fault was raised and a later frame of the channel has been handled
C15_Witness ==
    \E k \in Calls :
        /\ \E f \in faults : f.k = k /\ f.exc = "UndeliverableMessage"
        /\ lastFrame[k].kind \in {"BasicDeliver", "ExchangeDeclareOK", "BasicQosOK"}

\* the loop is about to run receive_body for channel k on a body frame that
\* belongs to a header declaring a body of positive length
BodyStep(k) ==
    /\ PeerIdle /\ runq # <<>> /\ Head(runq).op = "recv" /\ Head(runq).k = k
    /\ Head(runq).c = "receive_body"
    /\ builder[k].on /\ builder[k].hdr > 0
    /\ builder[k].got + Head(runq).p.size <= builder[k].hdr

\* C16 (as stated): a chunk that does not complete the body adds one frame request and
\* notifies nobody; the chunk that completes it resolves one wait on the body
\* key with the built message, clears the builder and adds no frame request.
C16_BodySteps ==
    [][\A k \in Calls :
          BodyStep(k) /\ runq' # runq
          => LET b == builder[k]
                 size == Head(runq).p.size
             IN IF b.got + size < b.hdr
                THEN /\ runq' = Append(Tail(runq), Item("read", k, "", NoP, NoP))
                     /\ waits' = waits
                     /\ builder'[k] = [b EXCEPT !.got = b.got + size]
                ELSE /\ \E i \in 1..Len(waits[k]) :
                          /\ "ContentBodyFrame" \in waits[k][i].keys
                          /\ waits'[k] = RemoveAt(waits[k], i)
                          /\ runq' = IF waits[k][i].live
                                     THEN Append(Tail(runq),
                                                 Item("resume", k, waits[k][i].c, waits[k][i].p,
                                                      P("Msg", b.tag, b.meta, b.hdr)))
                                     ELSE Tail(runq)
                     /\ builder'[k] = NoBuilder
                     /\ faults' = faults]_vars

\* C17 (as stated): a receiver task started by a trigger frame finds the
\* builder slot empty, so no builder is overwritten; and while a completed
\* message waits to be handed off the slot is empty again.
C17_SingleBuilderSlot ==
    /\ [][\A k \in Calls :
             /\ PeerIdle /\ runq # <<>> /\ Head(runq).op = "recv" /\ Head(runq).k = k
             /\ Head(runq).c \in {"receive_getOK", "receive_deliver", "receive_return"}
             /\ runq' # runq
             => ~builder[k].on]_vars
    /\ [](\A n \in 1..Len(runq) :
            runq[n].op = "resume" /\ runq[n].v.kind = "Msg" => ~builder[runq[n].k].on)

\* C18 (as stated): a deliver or return sequence hands off the message of its
\* own trigger frame, a delivery under the consumer tag of that frame and at
\* most once, and the assertion of receive_return never fails.
C18_OwnMessageHandedOff ==
    \A k \in Calls :
        /\ \A n \in 1..Len(handoffs[k]) :
              LET h == handoffs[k][n] IN
              h.by \in {"BasicDeliver", "BasicReturn"}
                 => /\ h.meta = h.bymeta /\ h.tag = h.bytag
                    /\ msgs[h.bymeta].kind = h.by
                    /\ h.by = "BasicDeliver" <=> h.dest = "consumers"
                    /\ \A m \in 1..Len(handoffs[k]) :
                          handoffs[k][m].dest = h.dest /\ handoffs[k][m].meta = h.meta => m = n
        /\ \A f \in faults : f.exc # "AssertionError"

\* C19: a channel never has more than one frame request that no frame has
\* answered yet, whether suspended on the empty queue or queued on the loop.
C19_OneFrameRequest ==
    \A k \in Calls : Outstanding(k) <= 1

\* a delivery has been handed off, a declaration or a qos call has been
\* answered, and one frame request is waiting
C19_Witness ==
    \E k \in Calls :
        /\ Outstanding(k) = 1
        /\ lastFrame[k].kind \in {"ExchangeDeclareOK", "BasicQosOK"}
        /\ \E h \in HandedOff(k) : h.dest = "consumers"

\* the loop is about to run the header or body task of channel k inside a
\* sequence started by a deliver or a return trigger
ContentStep(k, c) ==
    /\ PeerIdle /\ runq # <<>> /\ Head(runq).op = "recv" /\ Head(runq).k = k
    /\ Head(runq).c = c
    /\ builder[k].on /\ msgs[builder[k].meta].kind \in {"BasicDeliver", "BasicReturn"}

HasWait(k, key) == \E i \in 1..Len(waits[k]) : key \in waits[k][i].keys

NoNewProtocolFault == \A f \in faults' \ faults : f.exc # "ProtocolFault"

\* C20: in a deliver or return sequence the header notification finds a wait
\* registered under the header key, and the notification issued by the body
\* frame that completes the message finds one under the body key; neither
\* raises a protocol fault.
C20_WaitBeforeNotify ==
    [][\A k \in Calls :
          /\ (ContentStep(k, "receive_header") /\ runq' # runq)
                => (HasWait(k, "ContentHeaderFrame") /\ NoNewProtocolFault)
          /\ (ContentStep(k, "receive_body") /\ runq' # runq
                  /\ builder[k].got + Head(runq).p.size = builder[k].hdr)
                => (HasWait(k, "ContentBodyFrame") /\ NoNewProtocolFault)]_vars

\* a delivery and a returned message, each with a body of several frames,
\* have gone through
C20_Witness ==
    \E k \in Calls :
        /\ \E h \in HandedOff(k) : h.dest = "consumers" /\ h.size = MaxBody /\ h.meta = h.bymeta
        /\ \E h \in HandedOff(k) : h.dest = "catcher" /\ h.size = MaxBody /\ h.meta = h.bymeta
        /\ MaxBody > FrameMax

====
